---- MODULE Spec2Model ----
(***************************************************************************)
(* Model of christmas-lights (src/src/main.rs): a BLE light fixture whose  *)
(* colour is cycled through the hue circle by a control loop, and which a  *)
(* periodic job (every 2 minutes) switches off between sunrise and sunset. *)
(*                                                                         *)
(* Time is the wall clock in milliseconds since 1970-01-01T00:00:00Z.      *)
(* The job and the loop run on one task: run_pending().await completes the *)
(* job's future before the loop goes on (main.rs:74).                      *)
(***************************************************************************)
EXTENDS Integers, Sequences, FiniteSets, TLC

VARIABLES
    pc,             \* position of the main task
    now,            \* wall clock, ms since the epoch
    is_off,         \* main.rs:47, the shared AtomicBool
    hue_deg,        \* main.rs:72, the hue cursor
    next_run,       \* the scheduler job's next due time (ms), 0 before creation
    iter,           \* number of control-loop iterations completed
    t_sunrise,      \* clock reading of the last is_after_sunrise() (ms)
    t_sunset,       \* clock reading of is_before_sunset() in the last check (ms),
                    \* 0 when that check did not call it
    write_result,   \* outcome of the last write: "none", "ok" or "err"
    created_at,     \* instant the schedule was created (ms), 0 before creation
    off_failed,     \* history: a power-off write failed since the flag last became Lit
    cmd_char_lock,  \* main.rs:42, holder of the command-characteristic mutex
    light_lock,     \* main.rs:39, holder of the peripheral mutex
    history,        \* TRUE in the runs that keep the history variables
    trace,          \* history: checks, flag changes, flag reads and write attempts, in order
    hue_log         \* history: the cursor value after each tick

vars == <<pc, now, is_off, hue_deg, next_run, iter, t_sunrise, t_sunset,
          write_result, created_at, off_failed, cmd_char_lock, light_lock,
          history, trace, hue_log>>

----------------------------------------------------------------------------
(* Program constants *)

CYCLE_TIME_MILLISECOND == 10
MAGIC_NUMBER == 60
IdleSleepSecs == 60
CheckMinutes == 2
ScanSleepSecs == 2
HueModulus == 360
OpSetColor == 2
OpTurnOff == 1

(* Bounds of the model *)

MaxIter == 5
MaxTicks == 725

(* Calendar arithmetic of chrono: a UTC day is 86400 s *)

MsPerSec == 1000
SecsPerDay == 24 * 60 * 60
MsPerDay == SecsPerDay * MsPerSec
CheckPeriodSecs == CheckMinutes * 60
CheckPeriodMs == CheckPeriodSecs * MsPerSec

\* DateTime::timestamp(): whole seconds since the epoch
timestamp(t) == t \div MsPerSec

\* (year, month, day) of an instant, as the index of its UTC calendar day
DayOf(t) == t \div MsPerDay

----------------------------------------------------------------------------
(* Astronomical gate *)

\* Sunrise and sunset of CURRENT_LOCATION, as seconds after UTC midnight.
\* The sunrise crate computes them per calendar day; the model uses the
\* values of early January at 47.55N 19.25E (06:30 and 15:04 UTC).
SunriseSecOfDay(d) == 6 * 3600 + 30 * 60
SunsetSecOfDay(d) == 15 * 3600 + 4 * 60

\* get_sunrise_sunset(current_date): timestamps (s) for the day of the date
get_sunrise_sunset(current_date) ==
    LET d == DayOf(current_date)
    IN  <<d * SecsPerDay + SunriseSecOfDay(d), d * SecsPerDay + SunsetSecOfDay(d)>>

\* is_after_sunrise(), given the value Utc::now() returned to it
is_after_sunrise_inclusive(current_date) ==
    get_sunrise_sunset(current_date)[1] <= timestamp(current_date)
is_after_sunrise(current_date) ==
    get_sunrise_sunset(current_date)[1] < timestamp(current_date)

\* is_before_sunset(), given the value Utc::now() returned to it
is_before_sunset(current_date) ==
    timestamp(current_date) < get_sunrise_sunset(current_date)[2]

----------------------------------------------------------------------------
(* Colour animator *)

InitialHue == 1

\* hue_deg = (hue_deg + 1.0) % 360.0 : every value is an integer below 2^24,
\* exact in the float type
TickOffByOne(h) == (h + 1) % (HueModulus + 1)
Tick(h) == (h + 1) % HueModulus

\* Rgb::from_color(Hsv(Deg(h), 1.0, 1.0)): the channels as sixtieths of 1.0
\* (standard hue sextant mapping at full saturation and value)
HsvToRgb60(h) ==
    LET sextant == (h \div 60) % 6
        f == h % 60
    IN  CASE sextant = 0 -> <<60, f, 0>>
          [] sextant = 1 -> <<60 - f, 60, 0>>
          [] sextant = 2 -> <<0, 60, f>>
          [] sextant = 3 -> <<0, 60 - f, 60>>
          [] sextant = 4 -> <<f, 0, 60>>
          [] OTHER       -> <<60, 0, 60 - f>>

\* (c * 255.0) as u8 : truncation toward zero, saturating at 0 and 255
ChannelToU8(c60) ==
    LET x == (c60 * 255) \div 60
    IN  IF x > 255 THEN 255 ELSE IF x < 0 THEN 0 ELSE x

rgb_f32_to_u8_capped(rgb) ==
    <<ChannelToU8(rgb[1]), ChannelToU8(rgb[2]), ChannelToU8(rgb[3])>>

\* the (r, g, b) the loop passes to set_color for cursor value h
ColorOfHue(h) == rgb_f32_to_u8_capped(HsvToRgb60(h))

----------------------------------------------------------------------------
(* Command frames *)

\* set_color: vec![MAGIC_NUMBER, 0x02, r, g, b]
color_cmd_swapped(rgb) == <<MAGIC_NUMBER, OpSetColor, rgb[1], rgb[3], rgb[2]>>
color_cmd(rgb) == <<MAGIC_NUMBER, OpSetColor, rgb[1], rgb[2], rgb[3]>>

\* turn_off_lights: vec![MAGIC_NUMBER, 0x01]
shut_off_cmd == <<MAGIC_NUMBER, OpTurnOff>>

----------------------------------------------------------------------------
(* Scheduler (clokwerk AsyncScheduler, one job, Interval::Minutes(2)) *)

\* Interval::Minutes(m).next(from): the next multiple of m minutes since the
\* start of the day, strictly after `from` truncated to whole seconds
NextRunTime(from) ==
    LET s == timestamp(from)
        modulus == (s % SecsPerDay) % CheckPeriodSecs
    IN  (s + CheckPeriodSecs - modulus) * MsPerSec

\* Job::is_pending(now)
IsPending(t) == next_run > 0 /\ next_run <= t

----------------------------------------------------------------------------
(* History records *)

Event(e, frame, val) == [ev |-> e, iter |-> iter, frame |-> frame, val |-> val]

Log(e, frame, val) ==
    trace' = IF history THEN Append(trace, Event(e, frame, val)) ELSE trace

NoFrame == <<>>

----------------------------------------------------------------------------
(* Environment: what the model lets the host and the clock do *)

ScanSleepMs == ScanSleepSecs * MsPerSec
IdleSleepMs == IdleSleepSecs * MsPerSec

\* A sleep lasts at least its duration; the host may be late by a whole
\* check period (a busy host, a slow send).
Overshoot == {0, CheckPeriodMs}

\* The runs that keep no history go on for ever. Their clock is followed
\* over one check period and LiveTicks cycle sleeps from the creation of the
\* schedule and stands still from then on; their sleeps last exactly their
\* duration.
LiveTicks == 50
Horizon == created_at + CheckPeriodMs + LiveTicks * CYCLE_TIME_MILLISECOND
Min(a, b) == IF a < b THEN a ELSE b
Late == IF history THEN Overshoot ELSE {0}
Sleep(d) == \E o \in Late :
    now' = IF history THEN now + d + o ELSE Min(now + d + o, Horizon)

\* an iteration ends: the bounded runs count it and stop after MaxIter
EndIteration ==
    /\ history => iter < MaxIter
    /\ iter' = IF history THEN iter + 1 ELSE iter

\* tokio::sync::Mutex: lock().await waits until the mutex is free
Lock(mutex, who) == mutex = "free" /\ mutex' = who

\* Time that may pass between the two clock readings of one check
ReadGap == {0, CYCLE_TIME_MILLISECOND}

\* Instants at which the schedule is created in the modelled runs (day 0):
\* just before the check at sunrise, one period before the check at sunset,
\* before the last check of the day, and an instant of the evening that is
\* no multiple of the period.
ScheduleTimes ==
    { SunriseSecOfDay(0) * MsPerSec - CYCLE_TIME_MILLISECOND,
      (SunsetSecOfDay(0) - CheckPeriodSecs) * MsPerSec - CYCLE_TIME_MILLISECOND,
      (SecsPerDay - CheckPeriodSecs) * MsPerSec - 2 * CYCLE_TIME_MILLISECOND,
      (20 * 3600 + 30) * MsPerSec }

\* Process start: the scan window precedes the creation of the schedule
StartTimes == { t - ScanSleepMs : t \in ScheduleTimes }

----------------------------------------------------------------------------
(* Initial state: the process starts; is_off and hue_deg hold the values   *)
(* main gives them at lines 47 and 72.                                     *)

InitialIsOffDay == TRUE
InitialIsOff == FALSE

Init ==
    /\ pc = "get_light"
    /\ now \in StartTimes
    /\ is_off = InitialIsOff
    /\ hue_deg = InitialHue
    /\ next_run = 0
    /\ iter = 0
    /\ t_sunrise = 0
    /\ t_sunset = 0
    /\ write_result = "none"
    /\ created_at = 0
    /\ off_failed = FALSE
    /\ cmd_char_lock = "free"
    /\ light_lock = "free"
    /\ history = TRUE
    /\ trace = <<>>
    /\ hue_log = <<>>

----------------------------------------------------------------------------
(* Startup, main.rs:33-49 *)

\* a startup step that fails ends the process: .expect() panics, ? returns
\* the error from main
FailRetry == pc' = "get_light" /\ Log("fail", NoFrame, FALSE)
Fail == pc' = "aborted" /\ Log("fail", NoFrame, FALSE)
Proceed(next) == pc' = next /\ UNCHANGED trace

\* get_light(): no adapter or no device named "...Light..." panics; the scan
\* sleeps 2 s before the devices are listed
GetLight ==
    /\ pc = "get_light"
    /\ \E outcome \in {"found", "no_adapter", "no_device"} :
          IF outcome = "found"
          THEN /\ Proceed("connect")
               /\ now' = now + ScanSleepMs
          ELSE /\ Fail
               /\ now' = IF outcome = "no_device" THEN now + ScanSleepMs ELSE now
    /\ UNCHANGED <<history, cmd_char_lock, light_lock, is_off, hue_deg, next_run, iter, t_sunrise, t_sunset,
                   write_result, created_at, off_failed, hue_log>>

\* light.connect().await?
Connect ==
    /\ pc = "connect"
    /\ \E ok \in BOOLEAN : IF ok THEN Proceed("discover_services") ELSE Fail
    /\ UNCHANGED <<history, cmd_char_lock, light_lock, now, is_off, hue_deg, next_run, iter, t_sunrise, t_sunset,
                   write_result, created_at, off_failed, hue_log>>

\* light.discover_services().await?
DiscoverServices ==
    /\ pc = "discover_services"
    /\ \E ok \in BOOLEAN :
          IF ok
          THEN Proceed("get_command_characteristics") /\ Lock(light_lock, "main")
          ELSE Fail /\ UNCHANGED light_lock
    /\ UNCHANGED <<history, cmd_char_lock, now, is_off, hue_deg, next_run, iter, t_sunrise, t_sunset,
                   write_result, created_at, off_failed, hue_log>>

\* get_command_characteristics((*light.lock().await).borrow()).await, line 43:
\* .expect() panics when the UUID is absent; the guard of the peripheral
\* mutex is a temporary of the statement and is dropped at its end
GetCommandCharacteristics ==
    /\ pc = "get_command_characteristics"
    /\ \E present \in BOOLEAN : IF present THEN Proceed("schedule") ELSE Fail
    /\ light_lock' = "free"
    /\ UNCHANGED <<history, cmd_char_lock, now, is_off, hue_deg, next_run, iter, t_sunrise, t_sunset,
                   write_result, created_at, off_failed, hue_log>>

\* scheduler.every(2.minutes()).run(..): the job's first run is the next
\* multiple of the period after the creation instant
FirstRunImmediate(t) == t
FirstRun(t) == NextRunTime(t)

Schedule ==
    /\ pc = "schedule"
    /\ next_run' = FirstRun(now)
    /\ created_at' = now
    /\ pc' = "run_pending"
    /\ UNCHANGED <<history, cmd_char_lock, light_lock, now, is_off, hue_deg, iter, t_sunrise, t_sunset,
                   write_result, off_failed, trace, hue_log>>

----------------------------------------------------------------------------
(* The scheduler job, main.rs:49-70 *)

\* scheduler.run_pending().await : runs the job when it is due, and sets the
\* next run from the instant of this call (no queue of missed periods)
\* a schedule that keeps its rhythm: the next run is one period after the
\* run that was due, whatever the instant of the call
RunPendingCatchUp ==
    /\ pc = "run_pending"
    /\ IF IsPending(now)
       THEN /\ next_run' = next_run + CheckPeriodMs
            /\ pc' = "is_after_sunrise"
       ELSE /\ pc' = "read_flag"
            /\ UNCHANGED next_run
    /\ UNCHANGED <<history, cmd_char_lock, light_lock, now, is_off, hue_deg, iter, t_sunrise, t_sunset,
                   write_result, created_at, off_failed, trace, hue_log>>

RunPending ==
    /\ pc = "run_pending"
    /\ IF IsPending(now)
       THEN /\ next_run' = NextRunTime(now)
            /\ pc' = "is_after_sunrise"
       ELSE /\ pc' = "read_flag"
            /\ UNCHANGED next_run
    /\ UNCHANGED <<history, cmd_char_lock, light_lock, now, is_off, hue_deg, iter, t_sunrise, t_sunset,
                   write_result, created_at, off_failed, trace, hue_log>>

\* if is_after_sunrise() && ... : the first clock reading; && short-circuits
IsAfterSunrise ==
    /\ pc = "is_after_sunrise"
    /\ t_sunrise' = now
    /\ t_sunset' = 0
    /\ IF is_after_sunrise(now)
       THEN /\ pc' = "is_before_sunset"
            /\ \E g \in ReadGap : now' = now + g
            /\ UNCHANGED trace
       ELSE /\ pc' = "job_else"
            /\ Log("gate", NoFrame, FALSE)
            /\ UNCHANGED now
    /\ UNCHANGED <<history, cmd_char_lock, light_lock, is_off, hue_deg, next_run, iter,
                   write_result, created_at, off_failed, hue_log>>

\* ... && is_before_sunset() : the second clock reading
IsBeforeSunset ==
    /\ pc = "is_before_sunset"
    /\ t_sunset' = now
    /\ Log("gate", NoFrame, is_before_sunset(now))
    /\ pc' = IF is_before_sunset(now) THEN "job_day" ELSE "job_else"
    /\ UNCHANGED <<history, cmd_char_lock, light_lock, now, is_off, hue_deg, next_run, iter, t_sunrise,
                   write_result, created_at, off_failed, hue_log>>

\* the daytime branch, lines 55-64
JobDayLevel ==
    /\ pc = "job_day"
    /\ is_off' = TRUE
    /\ pc' = "job_lock_cmd_char"
    /\ Log("to_off", NoFrame, is_off)
    /\ UNCHANGED <<history, cmd_char_lock, light_lock, now, hue_deg, next_run, iter, t_sunrise, t_sunset,
                   write_result, created_at, off_failed, hue_log>>

JobDay ==
    /\ pc = "job_day"
    /\ IF ~is_off
       THEN /\ is_off' = TRUE
            /\ pc' = "job_lock_cmd_char"
            /\ Log("to_off", NoFrame, is_off)
       ELSE /\ pc' = "read_flag"
            /\ UNCHANGED <<is_off, trace>>
    /\ UNCHANGED <<history, cmd_char_lock, light_lock, now, hue_deg, next_run, iter, t_sunrise, t_sunset,
                   write_result, created_at, off_failed, hue_log>>

\* .ok() on the write's Result: the outcome is dropped, control goes on
ok_propagate(ok, cont) == IF ok THEN cont ELSE "aborted"
ok_discard(ok, cont) == cont

\* light.write(cmd_char, frame, WithoutResponse).await.ok()
Write(frame, cont) ==
    \E ok \in BOOLEAN :
        /\ write_result' = IF ok THEN "ok" ELSE "err"
        /\ off_failed' = IF frame = shut_off_cmd THEN ~ok ELSE off_failed
        /\ Log("write", frame, FALSE)
        /\ pc' = ok_discard(ok, cont)

\* the guards are temporaries of the statement that sends: both mutexes are
\* released when the statement ends, after the write has returned
ReleaseKeep == UNCHANGED <<cmd_char_lock, light_lock>>
Release == cmd_char_lock' = "free" /\ light_lock' = "free"

\* cmd_char_clone.lock().await, line 59: the first argument of the call
JobLockCmdChar ==
    /\ pc = "job_lock_cmd_char"
    /\ Lock(cmd_char_lock, "job")
    /\ pc' = "job_lock_light"
    /\ UNCHANGED <<history, light_lock, now, is_off, hue_deg, next_run, iter, t_sunrise, t_sunset,
                   write_result, created_at, off_failed, trace, hue_log>>

\* light_clone.lock().await, line 60: the second argument
JobLockLight ==
    /\ pc = "job_lock_light"
    /\ Lock(light_lock, "job")
    /\ pc' = "turn_off_lights"
    /\ UNCHANGED <<history, cmd_char_lock, now, is_off, hue_deg, next_run, iter, t_sunrise, t_sunset,
                   write_result, created_at, off_failed, trace, hue_log>>

\* turn_off_lights(..).await, lines 58-62
TurnOffLights ==
    /\ pc = "turn_off_lights"
    /\ Write(shut_off_cmd, "read_flag")
    /\ Release
    /\ UNCHANGED <<history, now, is_off, hue_deg, next_run, iter, t_sunrise, t_sunset,
                   created_at, hue_log>>

\* the else-if branch, lines 65-68
JobElseTurnOn ==
    /\ pc = "job_else"
    /\ IF is_off
       THEN /\ is_off' = FALSE
            /\ trace' = trace \o <<Event("to_lit", NoFrame, is_off),
                                   Event("write", <<MAGIC_NUMBER, 0>>, FALSE)>>
            /\ off_failed' = FALSE
       ELSE UNCHANGED <<is_off, off_failed, trace>>
    /\ pc' = "read_flag"
    /\ UNCHANGED <<history, cmd_char_lock, light_lock, now, hue_deg, next_run, iter, t_sunrise, t_sunset,
                   write_result, created_at, hue_log>>

\* the else-if branch starting the animation afresh
JobElseResetHue ==
    /\ pc = "job_else"
    /\ IF is_off
       THEN /\ is_off' = FALSE
            /\ off_failed' = FALSE
            /\ hue_deg' = InitialHue
            /\ Log("to_lit", NoFrame, is_off)
       ELSE UNCHANGED <<is_off, off_failed, hue_deg, trace>>
    /\ pc' = "read_flag"
    /\ UNCHANGED <<history, cmd_char_lock, light_lock, now, next_run, iter, t_sunrise, t_sunset,
                   write_result, created_at, hue_log>>

\* the else-if branch without its store
JobElseKeep ==
    /\ pc = "job_else"
    /\ pc' = "read_flag"
    /\ UNCHANGED <<history, cmd_char_lock, light_lock, now, is_off, hue_deg, next_run, iter,
                   t_sunrise, t_sunset, write_result, created_at, off_failed, trace, hue_log>>

JobElse ==
    /\ pc = "job_else"
    /\ IF is_off
       THEN /\ is_off' = FALSE
            /\ off_failed' = FALSE
            /\ Log("to_lit", NoFrame, is_off)
       ELSE UNCHANGED <<is_off, off_failed, trace>>
    /\ pc' = "read_flag"
    /\ UNCHANGED <<history, cmd_char_lock, light_lock, now, hue_deg, next_run, iter, t_sunrise, t_sunset,
                   write_result, created_at, hue_log>>

----------------------------------------------------------------------------
(* The control loop, main.rs:73-92 *)

\* if !is_off.load(..)
ReadFlagIgnored ==
    /\ pc = "read_flag"
    /\ Log("read", NoFrame, is_off)
    /\ pc' = "animate"
    /\ UNCHANGED <<history, cmd_char_lock, light_lock, now, is_off, hue_deg, next_run, iter, t_sunrise, t_sunset,
                   write_result, created_at, off_failed, hue_log>>

ReadFlag ==
    /\ pc = "read_flag"
    /\ Log("read", NoFrame, is_off)
    /\ pc' = IF ~is_off THEN "animate" ELSE "idle_sleep"
    /\ UNCHANGED <<history, cmd_char_lock, light_lock, now, is_off, hue_deg, next_run, iter, t_sunrise, t_sunset,
                   write_result, created_at, off_failed, hue_log>>

\* line 77: advance the cursor
Animate ==
    /\ pc = "animate"
    /\ hue_deg' = Tick(hue_deg)
    /\ hue_log' = IF history THEN Append(hue_log, hue_deg') ELSE hue_log
    /\ pc' = "lock_cmd_char"
    /\ UNCHANGED <<history, cmd_char_lock, light_lock, now, is_off, next_run, iter, t_sunrise, t_sunset,
                   write_result, created_at, off_failed, trace>>

\* (*cmd_char.lock().await).borrow(), line 82: the first argument of the call
LockCmdChar ==
    /\ pc = "lock_cmd_char"
    /\ Lock(cmd_char_lock, "main")
    /\ pc' = "lock_light"
    /\ UNCHANGED <<history, light_lock, now, is_off, hue_deg, next_run, iter, t_sunrise, t_sunset,
                   write_result, created_at, off_failed, trace, hue_log>>

\* (*light.lock().await).borrow(), line 83: the second argument
LockLight ==
    /\ pc = "lock_light"
    /\ Lock(light_lock, "main")
    /\ pc' = "set_color"
    /\ UNCHANGED <<history, cmd_char_lock, now, is_off, hue_deg, next_run, iter, t_sunrise, t_sunset,
                   write_result, created_at, off_failed, trace, hue_log>>

\* the hue the frame of a tick is computed from, lines 78-79: the cursor as
\* line 77 left it, after the increment
FrameHueBefore(h) == (h + HueModulus - 1) % HueModulus
FrameHue(h) == h

\* lines 78-86: convert, set_color(..).await
SetColor ==
    /\ pc = "set_color"
    /\ Write(color_cmd(ColorOfHue(FrameHue(hue_deg))), "cycle_sleep")
    /\ Release
    /\ UNCHANGED <<history, now, is_off, hue_deg, next_run, iter, t_sunrise, t_sunset,
                   created_at, hue_log>>

\* a loop whose Lit branch sleeps and goes round without the due check
CycleSleepSkipCheck ==
    /\ pc = "cycle_sleep"
    /\ EndIteration
    /\ Sleep(CYCLE_TIME_MILLISECOND)
    /\ pc' = "read_flag"
    /\ UNCHANGED <<history, cmd_char_lock, light_lock, is_off, hue_deg, next_run, t_sunrise, t_sunset,
                   write_result, created_at, off_failed, trace, hue_log>>

\* time::sleep(10 ms), then the next iteration
CycleSleep ==
    /\ pc = "cycle_sleep"
    /\ EndIteration
    /\ Sleep(CYCLE_TIME_MILLISECOND)
    /\ pc' = "run_pending"
    /\ UNCHANGED <<history, cmd_char_lock, light_lock, is_off, hue_deg, next_run, t_sunrise, t_sunset,
                   write_result, created_at, off_failed, trace, hue_log>>

\* a loop whose idle branch sleeps and goes round without the due check
IdleSleepSkipCheck ==
    /\ pc = "idle_sleep"
    /\ EndIteration
    /\ Sleep(IdleSleepMs)
    /\ pc' = "read_flag"
    /\ UNCHANGED <<history, cmd_char_lock, light_lock, is_off, hue_deg, next_run, t_sunrise, t_sunset,
                   write_result, created_at, off_failed, trace, hue_log>>

\* time::sleep(60 s), then the next iteration
IdleSleep ==
    /\ pc = "idle_sleep"
    /\ EndIteration
    /\ Sleep(IdleSleepMs)
    /\ pc' = "run_pending"
    /\ UNCHANGED <<history, cmd_char_lock, light_lock, is_off, hue_deg, next_run, t_sunrise, t_sunset,
                   write_result, created_at, off_failed, trace, hue_log>>

Next ==
    \/ GetLight
    \/ Connect
    \/ DiscoverServices
    \/ GetCommandCharacteristics
    \/ Schedule
    \/ RunPending
    \/ IsAfterSunrise
    \/ IsBeforeSunset
    \/ JobDay
    \/ JobLockCmdChar
    \/ JobLockLight
    \/ TurnOffLights
    \/ JobElse
    \/ ReadFlag
    \/ Animate
    \/ LockCmdChar
    \/ LockLight
    \/ SetColor
    \/ CycleSleep
    \/ IdleSleep

Spec == Init /\ [][Next]_vars

----------------------------------------------------------------------------
(* The runs without history: the same program from the same initial state, *)
(* with no bound on the number of iterations. main is one task whose       *)
(* awaits (write, sleep, lock) return, so a step that can be taken is      *)
(* taken.                                                                  *)

\* the schedule is created just before the check at sunrise, or one period
\* before the check at sunset
LiveScheduleTimes ==
    { SunriseSecOfDay(0) * MsPerSec - CYCLE_TIME_MILLISECOND,
      (SunsetSecOfDay(0) - CheckPeriodSecs) * MsPerSec - CYCLE_TIME_MILLISECOND }

InitLive ==
    /\ pc = "get_light"
    /\ now \in { t - ScanSleepMs : t \in LiveScheduleTimes }
    /\ is_off = InitialIsOff
    /\ hue_deg = InitialHue
    /\ next_run = 0
    /\ iter = 0
    /\ t_sunrise = 0
    /\ t_sunset = 0
    /\ write_result = "none"
    /\ created_at = 0
    /\ off_failed = FALSE
    /\ cmd_char_lock = "free"
    /\ light_lock = "free"
    /\ history = FALSE
    /\ trace = <<>>
    /\ hue_log = <<>>

SpecLive == InitLive /\ [][Next]_vars /\ WF_vars(Next)

----------------------------------------------------------------------------
(* The hue cursor alone, over more than two turns of the circle: the       *)
(* assignment of line 77 applied MaxTicks times to the initial cursor.     *)

InitHue ==
    /\ pc = "animate"
    /\ now = 0
    /\ is_off = InitialIsOff
    /\ hue_deg = InitialHue
    /\ next_run = 0
    /\ iter = 0
    /\ t_sunrise = 0
    /\ t_sunset = 0
    /\ write_result = "none"
    /\ created_at = 0
    /\ off_failed = FALSE
    /\ cmd_char_lock = "free"
    /\ light_lock = "free"
    /\ history = TRUE
    /\ trace = <<>>
    /\ hue_log = <<>>

HueTick ==
    /\ Len(hue_log) < MaxTicks
    /\ hue_deg' = Tick(hue_deg)
    /\ hue_log' = Append(hue_log, hue_deg')
    /\ UNCHANGED <<history, cmd_char_lock, light_lock, pc, now, is_off, next_run, iter, t_sunrise, t_sunset,
                   write_result, created_at, off_failed, trace>>

NextHue == HueTick

SpecHue == InitHue /\ [][NextHue]_vars

----------------------------------------------------------------------------
(* Reading the history *)

IsWrite(e) == e.ev = "write"
IsOffWrite(e) == e.ev = "write" /\ e.frame = <<60, 1>>
IsColorWrite(e) == e.ev = "write" /\ Len(e.frame) = 5
IsToLit(e) == e.ev = "to_lit"
IsDayGate(e) == e.ev = "gate" /\ e.val
Idx == 1..Len(trace)

ColorWrites == SelectSeq(trace, IsColorWrite)
OffWrites == SelectSeq(trace, IsOffWrite)
NoGateYet == \A i \in Idx : trace[i].ev # "gate"

\* the loop is in the Lit branch, between the flag read and the sleep
Sending == pc \in {"lock_cmd_char", "lock_light", "set_color"}
InLitIteration == pc = "animate" \/ Sending
\* the job is in its power-off send
JobSending == pc \in {"job_lock_cmd_char", "job_lock_light", "turn_off_lights"}

\* the flag became Lit somewhere strictly between positions i and j
LitBetween(i, j) == \E k \in (i + 1)..(j - 1) : IsToLit(trace[k])

----------------------------------------------------------------------------
(* C1: at most one power-off frame is written per Lit->Suppressed          *)
(* transition: two power-off frames always have a Suppressed->Lit          *)
(* transition between them, and a check that sees daytime while the flag   *)
(* is already Suppressed is followed by no write (the next thing that      *)
(* happens is the loop's flag read).                                       *)
C1_OnePowerOffPerTransition ==
    /\ \A i, j \in Idx :
          (i < j /\ IsOffWrite(trace[i]) /\ IsOffWrite(trace[j])) => LitBetween(i, j)
    /\ \A i \in Idx :
          (IsDayGate(trace[i]) /\ i < Len(trace)) =>
              \/ trace[i + 1].ev = "read"
              \/ (trace[i + 1].ev = "to_off" /\ ~trace[i + 1].val)
    /\ \A i \in Idx :
          (trace[i].ev = "to_off" /\ i < Len(trace)) => IsOffWrite(trace[i + 1])

\* a later check saw daytime while still Suppressed after a power-off, and
\* the loop has gone on to read the flag
C1_Witness ==
    \E i, j \in Idx :
        /\ i < j /\ j < Len(trace)
        /\ IsOffWrite(trace[i])
        /\ IsDayGate(trace[j])
        /\ ~LitBetween(i, j)
        /\ trace[j + 1].ev = "read"
        /\ Len(OffWrites) = 1

(* C2: a check that moves the state from Suppressed to Lit writes no       *)
(* frame; what follows it in the history is the loop's flag read of the    *)
(* same iteration, seeing Lit, and then a colour frame of that iteration.  *)
C2_LitTransitionSilent ==
    \A i \in Idx :
        IsToLit(trace[i]) =>
            /\ trace[i].val
            /\ i < Len(trace) =>
                  /\ trace[i + 1].ev = "read"
                  /\ ~trace[i + 1].val
                  /\ trace[i + 1].iter = trace[i].iter
            /\ i + 1 < Len(trace) =>
                  /\ IsColorWrite(trace[i + 2])
                  /\ trace[i + 2].iter = trace[i].iter

C2_Witness ==
    \E i \in Idx :
        /\ IsToLit(trace[i])
        /\ i + 2 <= Len(trace)
        /\ IsColorWrite(trace[i + 2])
        /\ \E k \in 1..(i - 1) : IsOffWrite(trace[k])

(* C3: the job's transition is complete before the loop reads the flag:    *)
(* every event of the job precedes the flag read of its iteration; a       *)
(* power-off frame is followed by a colour frame only after a              *)
(* Suppressed->Lit transition; no colour frame is written in the iteration *)
(* of a power-off frame, nor in an iteration whose flag read is Suppressed.*)
C3_PowerOffBeforeFlagRead ==
    /\ \A i, j \in Idx :
          (i < j /\ IsOffWrite(trace[i]) /\ IsColorWrite(trace[j])) => LitBetween(i, j)
    /\ \A i, j \in Idx :
          (IsOffWrite(trace[i]) /\ IsColorWrite(trace[j])) => trace[i].iter # trace[j].iter
    /\ \A j \in Idx :
          IsColorWrite(trace[j]) =>
              /\ \E i \in 1..(j - 1) :
                    trace[i].ev = "read" /\ trace[i].iter = trace[j].iter
              /\ \A i \in Idx :
                    (trace[i].ev = "read" /\ trace[i].iter = trace[j].iter) => ~trace[i].val
    /\ \A i, r \in Idx :
          (/\ trace[r].ev = "read"
           /\ trace[i].iter = trace[r].iter
           /\ (trace[i].ev \in {"gate", "to_off", "to_lit"} \/ IsOffWrite(trace[i])))
          => i < r
    /\ InLitIteration => ~is_off

\* a power-off frame, the Suppressed flag read of its iteration right after
\* it, and colour frames again once the flag has become Lit
C3_Witness ==
    \E i, k, j \in Idx :
        /\ i < k /\ k < j
        /\ IsOffWrite(trace[i])
        /\ trace[i + 1].ev = "read" /\ trace[i + 1].val
        /\ trace[i + 1].iter = trace[i].iter
        /\ IsToLit(trace[k])
        /\ IsColorWrite(trace[j])

----------------------------------------------------------------------------
(* The gate, as the claims state it *)

SunriseTs(t) == DayOf(t) * SecsPerDay + SunriseSecOfDay(DayOf(t))
SunsetTs(t) == DayOf(t) * SecsPerDay + SunsetSecOfDay(DayOf(t))

\* t lies in [sunrise, sunset) of its own day
InDaytimeInclusive(t) == SunriseTs(t) <= timestamp(t) /\ timestamp(t) < SunsetTs(t)
\* t lies in (sunrise, sunset) of its own day
InDaytimeExclusive(t) == SunriseTs(t) < timestamp(t) /\ timestamp(t) < SunsetTs(t)

\* the `if` of line 54 has just been decided, and how
GateDecided == pc \in {"job_day", "job_else"}
GateValue == pc = "job_day"

\* every clock reading of the check returned the same instant
SingleInstant == t_sunset = 0 \/ t_sunset = t_sunrise

\* some instant of [a, b] lies in [sunrise, sunset) of its own day
DaytimeDuring(a, b) ==
    \E d \in {DayOf(a), DayOf(b)} :
        LET rise == (d * SecsPerDay + SunriseSecOfDay(d)) * MsPerSec
            set == (d * SecsPerDay + SunsetSecOfDay(d)) * MsPerSec
            lo == IF a > rise THEN a ELSE rise
            hi == IF b < set - 1 THEN b ELSE set - 1
        IN  lo <= hi

(* C4, as claimed: the gate of a check made at one instant now is true     *)
(* exactly when sunrise <= now < sunset, so it reports daytime at          *)
(* now = sunrise.                                                          *)
C4_GateInclusiveAtSunrise ==
    (GateDecided /\ SingleInstant) => (GateValue <=> InDaytimeInclusive(t_sunrise))

(* C4, amended: the gate reports daytime exactly when the first reading is *)
(* strictly after the sunrise of its day and the second reading is         *)
(* strictly before the sunset of its day; for a check made at one instant  *)
(* now that is sunrise < now < sunset: not daytime at now = sunrise, not   *)
(* daytime at now = sunset.                                                *)
C4_GateExclusiveBounds ==
    GateDecided =>
        /\ GateValue <=> /\ SunriseTs(t_sunrise) < timestamp(t_sunrise)
                         /\ t_sunset # 0
                         /\ timestamp(t_sunset) < SunsetTs(t_sunset)
        /\ SingleInstant => (GateValue <=> InDaytimeExclusive(t_sunrise))
        /\ timestamp(t_sunrise) = SunriseTs(t_sunrise) => ~GateValue
        /\ (SingleInstant /\ timestamp(t_sunrise) = SunsetTs(t_sunrise)) => ~GateValue

\* a check made in the very second of sunrise has reported "not daytime"
C4_Witness ==
    /\ GateDecided
    /\ timestamp(t_sunrise) = SunriseTs(t_sunrise)
    /\ ~GateValue

(* C5: a check reports daytime (and so enters Suppressed and sends the     *)
(* power-off) only if some instant during the check, between its first and *)
(* its last clock reading, lies in [sunrise, sunset) of its own day.       *)
C5_GateFromOneDay ==
    (pc = "job_day" \/ JobSending) => DaytimeDuring(t_sunrise, t_sunset)

----------------------------------------------------------------------------
(* C6 (under SpecHue): the cursor stays in [0,360); each tick moves it one *)
(* degree on, from 359 to 0; starting from 1, any 360 consecutive ticks    *)
(* visit every integer degree 0..359 exactly once.                         *)
C6_HueCycle ==
    LET n == Len(hue_log)
        before == IF n <= 1 THEN 1 ELSE hue_log[n - 1]
    IN  /\ hue_deg \in 0..359
        /\ n > 0 =>
              /\ hue_log[n] = hue_deg
              /\ hue_log[n] = IF before = 359 THEN 0 ELSE before + 1
        /\ n >= 360 =>
              /\ { hue_log[k] : k \in (n - 359)..n } = 0..359
              /\ \A k \in (n - 358)..n : hue_log[k] # hue_log[n - 359]

\* more than a full turn has been made and the cursor has just wrapped
C6_Witness ==
    /\ Len(hue_log) > 360
    /\ hue_deg = 0
    /\ hue_log[Len(hue_log) - 1] = 359

LitReads == SelectSeq(trace, LAMBDA e : e.ev = "read" /\ ~e.val)
SuppressedReads == SelectSeq(trace, LAMBDA e : e.ev = "read" /\ e.val)

(* C7: from the fresh start (Lit, cursor 1) every Lit iteration ticks once *)
(* and writes one colour frame, computed from the cursor after the         *)
(* increment: after n Lit iterations the cursor is (1 + n) mod 360 and n   *)
(* colour frames have been written, the k-th from hue (1 + k) mod 360.     *)
C7_TickThenFrame ==
    LET n == Len(ColorWrites)
    IN  /\ hue_deg = (1 + Len(hue_log)) % 360
        /\ Len(hue_log) = n + (IF Sending THEN 1 ELSE 0)
        /\ Len(LitReads) = n + (IF InLitIteration THEN 1 ELSE 0)
        /\ \A k \in 1..n :
              /\ hue_log[k] = (1 + k) % 360
              /\ ColorWrites[k].frame = <<60, 2>> \o ColorOfHue((1 + k) % 360)
              /\ ColorWrites[k].iter = LitReads[k].iter
        /\ \A i, j \in Idx :
              (/\ IsColorWrite(trace[i]) /\ IsColorWrite(trace[j])
               /\ trace[i].iter = trace[j].iter) => i = j

\* three consecutive Lit iterations from the start: cursor 4, three frames
C7_Witness ==
    /\ Len(ColorWrites) = 3
    /\ hue_deg = 4
    /\ Len(SuppressedReads) = 0
    /\ ColorWrites[1].frame # ColorWrites[2].frame
    /\ ColorWrites[2].frame # ColorWrites[3].frame

\* byte values on which the frame builder is tried
SampleBytes == {0, 10, 20, 30, 255}

(* C8: every frame written is <<0x3C, 0x01>> or <<0x3C, 0x02, r, g, b>>    *)
(* with r, g, b in 0..255; a colour frame carries the r, g, b it was given *)
(* unchanged in positions 3, 4, 5.                                         *)
C8_FrameShapes ==
    /\ \A i \in Idx :
          IsWrite(trace[i]) =>
              LET f == trace[i].frame
              IN  \/ f = <<60, 1>>
                  \/ /\ Len(f) = 5
                     /\ f[1] = 60 /\ f[2] = 2
                     /\ f[3] \in 0..255 /\ f[4] \in 0..255 /\ f[5] \in 0..255
    /\ \A k \in 1..Len(ColorWrites) :
          k <= Len(hue_log) => SubSeq(ColorWrites[k].frame, 3, 5) = ColorOfHue(hue_log[k])
    /\ \A r, g, b \in SampleBytes : color_cmd(<<r, g, b>>) = <<60, 2, r, g, b>>
    /\ shut_off_cmd = <<60, 1>>

\* both kinds of frame have been written
C8_Witness ==
    /\ Len(OffWrites) > 0
    /\ Len(ColorWrites) > 0
    /\ \E i \in Idx : IsColorWrite(trace[i]) /\ trace[i].frame[4] > 0

\* power-off frames written since the flag last became Lit
OffsSinceLit ==
    Cardinality({ i \in Idx : IsOffWrite(trace[i]) /\ ~LitBetween(i, Len(trace) + 1) })

(* C9: a failed write changes nothing but its own outcome: the step of a   *)
(* failed write leaves the flag as it was, leaves the cursor at the step   *)
(* the iteration has made, records the one attempt and continues at the    *)
(* place a successful write continues; the loop is never left; after a     *)
(* failed power-off write the state is Suppressed and no second power-off  *)
(* is attempted for that transition.                                       *)
C9_WriteFailureAbsorbed ==
    [][ /\ (pc \in {"turn_off_lights", "set_color"} /\ write_result' = "err") =>
              /\ pc' = (IF pc = "set_color" THEN "cycle_sleep" ELSE "read_flag")
              /\ is_off' = is_off
              /\ hue_deg' = hue_deg
              /\ Len(trace') = Len(trace) + 1
              /\ IsWrite(trace'[Len(trace')])
              /\ <<now', next_run', iter'>> = <<now, next_run, iter>>
        /\ created_at > 0 => pc' # "aborted"
        /\ off_failed' => (is_off' /\ OffsSinceLit' = 1)
      ]_vars

\* the power-off write failed, and a later check has seen daytime again
\* without a second attempt
C9_Witness ==
    /\ off_failed
    /\ write_result = "err"
    /\ pc = "idle_sleep"
    /\ \E i, j \in Idx : i < j /\ IsOffWrite(trace[i]) /\ IsDayGate(trace[j])

\* no check has fired yet
BeforeFirstCheck == NoGateYet /\ pc \notin {"is_after_sunrise", "is_before_sunset"}

\* the first multiple of 2 minutes after instant c (ms)
FirstDue(c) == ((c \div (2 * 60 * 1000)) + 1) * (2 * 60 * 1000)

(* C10, as claimed: the first check fires no earlier than 2 minutes after  *)
(* the schedule is created.                                                *)
C10_FirstCheckAfterTwoMinutes ==
    (pc = "is_after_sunrise" /\ NoGateYet) => now >= created_at + 2 * 60 * 1000

(* C10, amended: the state is Lit from startup, whatever the time of day,  *)
(* until the first check fires; the first check is due at the first        *)
(* multiple of 2 minutes after the schedule's creation, which is at most   *)
(* 2 minutes after it; before it fires the gate is not evaluated, no       *)
(* power-off frame is written and every iteration writes a colour frame.   *)
C10_LitUntilFirstCheck ==
    /\ BeforeFirstCheck =>
          /\ ~is_off
          /\ t_sunrise = 0 /\ t_sunset = 0
          /\ Len(OffWrites) = 0
          /\ pc # "idle_sleep"
          /\ Len(ColorWrites) = iter + (IF pc = "cycle_sleep" THEN 1 ELSE 0)
          /\ created_at > 0 =>
                /\ next_run = FirstDue(created_at)
                /\ created_at < next_run
                /\ next_run <= created_at + 2 * 60 * 1000
    /\ (pc = "is_after_sunrise" /\ NoGateYet) => now >= FirstDue(created_at)

\* it is daytime, an iteration has written its colour frame, and no check
\* has fired yet
C10_Witness ==
    /\ BeforeFirstCheck
    /\ InDaytimeInclusive(now)
    /\ iter >= 1
    /\ Len(ColorWrites) >= 1
    /\ ~is_off

----------------------------------------------------------------------------
\* a startup step has failed
IsFail(e) == e.ev = "fail"

(* C11: a failed startup step ends the process before the control loop:    *)
(* the failure is the last thing that happens; no schedule has been        *)
(* created, no check has run, no frame has been written, no iteration has  *)
(* been made, no mutex is held, and no step is retried or taken afterwards.*)
C11_StartupFailureEndsProcess ==
    /\ \A i \in Idx : IsFail(trace[i]) => (i = 1 /\ Len(trace) = 1 /\ pc = "aborted")
    /\ pc = "aborted" =>
          /\ Len(trace) = 1 /\ IsFail(trace[1])
          /\ created_at = 0 /\ next_run = 0
          /\ t_sunrise = 0 /\ t_sunset = 0
          /\ write_result = "none"
          /\ iter = 0 /\ hue_deg = InitialHue /\ hue_log = <<>>
          /\ cmd_char_lock = "free" /\ light_lock = "free"
          /\ ~ENABLED Next

\* the process has ended on a startup failure that came after the scan
C11_Witness ==
    /\ pc = "aborted"
    /\ IsFail(trace[1])
    /\ now \in ScheduleTimes

----------------------------------------------------------------------------
\* the gate value of the latest check
GateIdx == { i \in Idx : trace[i].ev = "gate" }
LastGate == trace[CHOOSE i \in GateIdx : \A j \in GateIdx : j <= i]

\* the job is past its gate
InJob == pc \in {"job_day", "job_else"} \/ JobSending

(* C12: the flag changes only inside a check; a check that has seen        *)
(* daytime ends Suppressed and one that has not ends Lit, so after every   *)
(* completed check the flag equals the gate value the check has seen;      *)
(* daytime while Lit sets Suppressed and makes exactly one power-off write *)
(* attempt, not-daytime while Suppressed sets Lit without a write, every   *)
(* other check leaves the flag and writes nothing; the loop never writes   *)
(* the flag.                                                               *)
C12_FlagFollowsGate ==
    [][ /\ is_off' # is_off => pc \in {"job_day", "job_else"}
        /\ pc = "job_day" =>
              /\ LastGate.val /\ is_off'
              /\ ~is_off => pc' = "job_lock_cmd_char"
              /\ is_off => (pc' = "read_flag" /\ trace' = trace)
        /\ pc = "job_else" =>
              /\ ~LastGate.val /\ ~is_off'
              /\ pc' = "read_flag"
              /\ Len(SelectSeq(trace', IsWrite)) = Len(SelectSeq(trace, IsWrite))
        /\ Len(OffWrites') # Len(OffWrites) =>
              /\ pc = "turn_off_lights" /\ pc' = "read_flag"
              /\ Len(OffWrites') = Len(OffWrites) + 1
        /\ JobSending => (is_off /\ ~(pc' = "read_flag" /\ Len(OffWrites') = Len(OffWrites)))
        /\ (InJob /\ pc' = "read_flag") => is_off' = LastGate'.val
        /\ ~InJob => is_off' = is_off
      ]_vars

\* the flag has gone to Suppressed and back to Lit, and a later check has
\* left it as it was
C12_Witness ==
    \E i, j, k \in Idx :
        /\ i < j /\ j < k /\ k < Len(trace)
        /\ trace[i].ev = "to_off"
        /\ IsToLit(trace[j])
        /\ trace[k].ev = "gate" /\ trace[k + 1].ev = "read"

----------------------------------------------------------------------------
\* the instant of the previous evaluation of the gate (its run_pending call
\* and first clock reading), or the creation of the schedule before any
PrevEval == IF t_sunrise = 0 THEN created_at ELSE t_sunrise

(* C13, as claimed: the gate is evaluated only when at least 2 minutes     *)
(* have elapsed since the previous evaluation.                             *)
C13_TwoMinutesBetweenChecks ==
    (pc = "is_after_sunrise" /\ t_sunrise > 0) => now >= t_sunrise + 2 * 60 * 1000

(* C13, amended: the gate is evaluated at most once per loop iteration,    *)
(* and only by a run_pending call made at or after the first multiple of   *)
(* 2 minutes that follows the previous evaluation (or the creation of the  *)
(* schedule), which may be less than 2 minutes after it; a call made       *)
(* before that instant changes nothing; a call made after several such     *)
(* multiples have passed makes one evaluation and sets the next one to the *)
(* first multiple after the call, in the future: nothing is caught up.     *)
C13_OneCheckPerDuePeriod ==
    [][ /\ pc = "run_pending" =>
              /\ next_run = FirstDue(PrevEval)
              /\ IF now >= FirstDue(PrevEval)
                 THEN /\ pc' = "is_after_sunrise"
                      /\ next_run' = FirstDue(now)
                      /\ now < next_run' /\ next_run' <= now + 2 * 60 * 1000
                 ELSE /\ pc' = "read_flag"
                      /\ <<now', is_off', hue_deg', next_run', iter', t_sunrise', t_sunset',
                           write_result', trace', hue_log'>>
                         = <<now, is_off, hue_deg, next_run, iter, t_sunrise, t_sunset,
                             write_result, trace, hue_log>>
        /\ pc' = "is_after_sunrise" => pc = "run_pending"
        /\ pc' = "run_pending" => pc \in {"schedule", "cycle_sleep", "idle_sleep"}
        /\ \A i, j \in GateIdx' : trace'[i].iter = trace'[j].iter => i = j
      ]_vars

\* a check is being made after two of its due instants have passed since
\* the previous one
C13_Witness ==
    /\ pc = "is_after_sunrise"
    /\ t_sunrise > 0
    /\ now >= FirstDue(t_sunrise) + CheckPeriodMs
    /\ next_run = FirstDue(now)

----------------------------------------------------------------------------
\* the control loop is running
InLoop == created_at > 0 /\ pc # "aborted"

\* a check is due within the window the clock is followed over
CheckToCome == InLoop /\ now <= Horizon /\ next_run <= Horizon

\* from now to the end of the window every instant is strictly between the
\* sunrise and the sunset of one day: each check still to come sees daytime
DaytimeFromNowOn ==
    /\ CheckToCome
    /\ DayOf(now) = DayOf(Horizon)
    /\ InDaytimeExclusive(now) /\ InDaytimeExclusive(Horizon)

(* C14 (under SpecLive): if the state is Lit and the gate is daytime from  *)
(* now on, the state becomes Suppressed and the power-off write is         *)
(* attempted; the loop then idles: while the state is Suppressed no colour *)
(* frame is sent, and the state stays Suppressed as long as the gate is    *)
(* daytime.                                                                *)
C14_DaytimeLeadsToSuppressed ==
    /\ (~is_off /\ DaytimeFromNowOn) ~> (is_off /\ pc = "turn_off_lights")
    /\ (pc = "turn_off_lights") ~> (is_off /\ pc = "idle_sleep")
    /\ [](is_off => ~InLitIteration)
    /\ [][(is_off /\ InDaytimeExclusive(now) /\ InDaytimeExclusive(now')) => is_off']_vars

\* a run whose schedule was created before sunrise idles in Suppressed
\* after it: the Lit iterations of a whole period lie behind it
C14_Witness ==
    /\ ~history
    /\ is_off /\ pc = "idle_sleep"
    /\ timestamp(created_at) < SunriseTs(created_at)
    /\ InDaytimeExclusive(now)

----------------------------------------------------------------------------
\* from now to the end of the window every instant is at or after the
\* sunset, or at or before the sunrise, of one day: each check still to come
\* sees not-daytime
NotDaytimeFromNowOn ==
    /\ CheckToCome
    /\ DayOf(now) = DayOf(Horizon)
    /\ \/ timestamp(now) >= SunsetTs(now)
       \/ timestamp(Horizon) <= SunriseTs(Horizon)

(* C15 (under SpecLive): while Suppressed every iteration ends its 60 s    *)
(* sleep and calls the due check again, so the loop is never stuck in the  *)
(* idle branch; if the state is Suppressed and the gate is not daytime     *)
(* from now on, the state returns to Lit and colour frames are written     *)
(* again, one per iteration.                                               *)
C15_NightLeadsToLit ==
    /\ (is_off /\ NotDaytimeFromNowOn) ~> (~is_off /\ pc = "set_color")
    /\ (pc = "set_color") ~> (~is_off /\ pc = "cycle_sleep" /\ write_result # "none")
    /\ (pc = "idle_sleep") ~> (pc = "run_pending")
    /\ [][pc = "idle_sleep" => pc' = "run_pending"]_vars
    /\ [][(~is_off /\ pc = "cycle_sleep" /\ timestamp(now) >= SunsetTs(now)
                   /\ DayOf(now') = DayOf(now)) => ~is_off']_vars

\* a run that was Suppressed before sunset animates after it, up to the end
\* of the window
C15_Witness ==
    /\ ~history
    /\ ~is_off /\ pc = "cycle_sleep"
    /\ t_sunset > 0
    /\ timestamp(now) >= SunsetTs(now)
    /\ now = Horizon

----------------------------------------------------------------------------
(* C16: the hue cursor is changed only by a Lit iteration, by exactly one  *)
(* step and once per iteration; a check, with or without a transition, a   *)
(* send and a Suppressed iteration leave it unchanged; so after a          *)
(* Suppressed period the animation resumes at the hue that follows the     *)
(* last one sent, not at the initial hue.                                  *)
C16_HueOnlyByLitIteration ==
    [][ /\ hue_deg' # hue_deg => (pc = "animate" /\ ~is_off)
        /\ pc = "animate" => (hue_deg' = (hue_deg + 1) % 360 /\ hue_deg' # hue_deg)
        /\ Len(hue_log') <= iter' + 1
        /\ \A k \in 1..(Len(hue_log') - 1) : hue_log'[k + 1] = (hue_log'[k] + 1) % 360
        /\ \A k \in 1..Len(ColorWrites') :
              ColorWrites'[k].frame = <<60, 2>> \o ColorOfHue(hue_log'[k])
        /\ (Len(trace') > 0 /\ Len(hue_log') > 0 /\ IsToLit(trace'[Len(trace')])) =>
              hue_deg' = hue_log'[Len(hue_log')]
      ]_vars

\* a colour frame, a Suppressed period, and a colour frame again, from the
\* hue after the one sent before the period
C16_Witness ==
    /\ Len(ColorWrites) >= 2
    /\ IsColorWrite(trace[Len(trace)])
    /\ \E i, j \in Idx :
          /\ i < j
          /\ IsColorWrite(trace[i])
          /\ IsToLit(trace[j])
          /\ \A k \in (j + 1)..(Len(trace) - 1) : ~IsColorWrite(trace[k])
    /\ hue_deg = InitialHue + Len(ColorWrites)

----------------------------------------------------------------------------
(* C17: the sends are serialized and cannot deadlock: the job's power-off  *)
(* send and the loop's colour send take the command-characteristic mutex   *)
(* first and the peripheral mutex second, hold both for the one write and  *)
(* release both when it has returned; a mutex is free whenever a send      *)
(* waits for it, so the job and the loop never wait for each other, and at *)
(* most one write is in flight.                                            *)
C17_SendsSerialized ==
    /\ cmd_char_lock = "job" <=> pc \in {"job_lock_light", "turn_off_lights"}
    /\ cmd_char_lock = "main" <=> pc \in {"lock_light", "set_color"}
    /\ light_lock = "job" <=> pc = "turn_off_lights"
    /\ light_lock = "main" <=> pc \in {"set_color", "get_command_characteristics"}
    /\ (InLoop /\ light_lock # "free") => cmd_char_lock = light_lock
    /\ pc \in {"job_lock_cmd_char", "lock_cmd_char"} =>
          (cmd_char_lock = "free" /\ light_lock = "free")
    /\ pc \in {"job_lock_light", "lock_light"} => light_lock = "free"
    /\ pc \in {"turn_off_lights", "set_color"} =>
          (cmd_char_lock # "free" /\ light_lock = cmd_char_lock)
    /\ (JobSending \/ Sending) => ENABLED Next
    /\ (InLoop /\ ~JobSending /\ ~Sending) =>
          (cmd_char_lock = "free" /\ light_lock = "free")

\* the loop holds both mutexes for a colour write, after the job has held
\* and released them for a power-off write
C17_Witness ==
    /\ pc = "set_color"
    /\ cmd_char_lock = "main" /\ light_lock = "main"
    /\ Len(OffWrites) > 0

====
